---- MODULE Spec2Model ----
(***************************************************************************)
(* A model of zoom_meeting_summary.py: the token cache, the token          *)
(* exchange, the identity lookup, the two cursor-paginated listings, the   *)
(* summarizer and main().                                                  *)
(*                                                                         *)
(* Time is whole seconds.  A timestamp text is the record [h, m, s] of its *)
(* clock fields; a text whose fields are out of range does not parse.      *)
(* An HTTP attempt has one outcome: no response at all (a connect          *)
(* failure), or a response with a status and a body.  Responses carry no   *)
(* Retry-After header.                                                     *)
(*                                                                         *)
(* Spec is a run of main().  SpecAuth is get_access_token called again and *)
(* again while the clock advances, SpecFetch a call of either listing on   *)
(* its own, SpecDuration a call of calculate_participant_duration.         *)
(***************************************************************************)
EXTENDS Integers, Sequences, FiniteSets, TLC

VARIABLES
    pc,            \* position of the single thread of control
    now,           \* the wall clock, datetime.now()
    world,         \* what the provider may answer in this behaviour
    cacheFile,     \* contents of auth_cache.json
    saved,         \* history: arguments and time of the last save_token_to_cache
    http,          \* the transport's view of the request in flight
    response,      \* the local `response` of the function that is running
    err,           \* the exception that was raised, "" when none
    access_token,  \* main's access_token / get_access_token's return value
    calls,         \* history: number of calls of get_access_token
    authCalls,     \* history: number of token exchanges sent to the network
    user_id,       \* main's user_id
    params,        \* the local `params` of the listing that is running
    acc,           \* the local `meetings` / `participants` accumulator
    served,        \* history: the pages the provider served to this listing
    sent,          \* history: the params of each request of this listing
    result,        \* the value the listing returned
    meetings,      \* main's meetings
    idx,           \* summarize_meetings: 1-based position of the for loop
    fetched,       \* history: per meeting fetched, its id and the participants listed
    summary,       \* summarize_meetings' summary
    report,        \* what main printed as the report, NoReport when nothing
    join_time,     \* arguments and result of a direct call of
    leave_time,    \*   calculate_participant_duration
    duration

vars == <<pc, now, world, cacheFile, saved, http, response, err, access_token,
          calls, authCalls, user_id, params, acc, served, sent, result, meetings, idx, fetched,
          summary, report, join_time, leave_time, duration>>

----------------------------------------------------------------------------
(* Bounds of the model *)

MaxTime == 3          \* the clock runs from 0 to MaxTime in the cache model
MaxCalls == 3         \* calls of get_access_token in the cache model
MaxPages == 3         \* pages of a listing in the pagination model
MainPages == 2        \* pages of the meeting listing in a run of main
MainParticipantPages == 1  \* pages of a participant listing in a run of main

----------------------------------------------------------------------------
(* Program constants *)

RetryTotal == 5
StatusForcelist == {500, 502, 503, 504}
\* urllib3's Retry retries a status only for these methods unless told
\* otherwise; line 36 does not pass allowed_methods.
AllowedMethods == {"HEAD", "GET", "PUT", "DELETE", "OPTIONS", "TRACE"}
PageSize == 300
WindowDays == 14
SecondsPerMinute == 60

E_Token == "Failed to obtain access token"
E_User == "Failed to obtain user ID"
E_Meetings == "Failed to fetch meetings"
E_Unbound == "UnboundLocalError: response"
E_Key == "KeyError"
E_Json == "JSONDecodeError"
E_Cache == "cache record unreadable"
E_Parse == "ParserError"

----------------------------------------------------------------------------
(* Values *)

None == "<None>"                 \* Python's None where a token is expected
Absent == "<absent>"             \* a key that is not in a dict
Unbound == [status |-> 0, body |-> [kind |-> "unbound"]]
NoReport == [printed |-> FALSE, body |-> <<>>]
NoSave == [token |-> None, ttl |-> 0, at |-> 0, any |-> FALSE]
NoHttp == [op |-> "none", via |-> "none", method |-> "none", attempts |-> 0,
           first |-> 0, last |-> 0, done |-> TRUE, ok |-> FALSE]
NoParams == [kind |-> "none"]

Concat(ss) ==
    LET RECURSIVE cat(_)
        cat(k) == IF k = 0 THEN <<>> ELSE cat(k - 1) \o ss[k]
    IN cat(Len(ss))

----------------------------------------------------------------------------
(* datetime <-> text *)

\* datetime.isoformat(): the clock fields of an instant.
Isoformat(t) == [m |-> t \div SecondsPerMinute, s |-> t % SecondsPerMinute]
\* datetime.fromisoformat()
FromIsoformat(x) == x.m * SecondsPerMinute + x.s

\* dateutil.parser.parse of a provider timestamp: seconds since midnight, or
\* a ParserError when a field is out of range.
Parses(ts) == ts.h \in 0..23 /\ ts.m \in 0..59 /\ ts.s \in 0..59
Parse(ts) == (ts.h * 60 + ts.m) * 60 + ts.s

\* int(x / 60) for a whole number of seconds x: int() drops the fraction.
\* (Fault variant: the quotient floored, as math.floor would.)
IntOfQuotientFloor(x, d) == x \div d
IntOfQuotient(x, d) == IF x >= 0 THEN x \div d ELSE -((-x) \div d)

calculate_participant_duration(j, l) == IntOfQuotient(Parse(l) - Parse(j), SecondsPerMinute)

----------------------------------------------------------------------------
(* Token cache *)

\* auth_cache.json: absent, a record as save_token_to_cache writes it, or a
\* damaged file: text that is not JSON, a JSON object without "expiration"
\* or without "access_token", or one whose expiration is no ISO timestamp.
NoFile == [kind |-> "absent"]
NotJsonFile == [kind |-> "not_json"]
NoExpirationFile == [kind |-> "no_expiration", access_token |-> "tokA"]
BadExpirationFile == [kind |-> "bad_expiration", access_token |-> "tokA"]
NoTokenFile(exp) == [kind |-> "no_access_token", expiration |-> exp]
CacheRecord(tok, exp) == [kind |-> "record", access_token |-> tok, expiration |-> exp]

\* load_cached_token: TRUE when it raises instead of returning.  Line 50
\* raises on text that is not JSON, line 51 on a missing or malformed
\* expiration, line 54 on a missing access_token, which is read only when
\* the expiration is still ahead.
load_raises(file, t) ==
    \/ file.kind \in {"not_json", "no_expiration", "bad_expiration"}
    \/ file.kind = "no_access_token" /\ FromIsoformat(file.expiration) > t

\* load_cached_token: what it returns when it returns.
\* (Fault variant: a record that expires at this very instant still counts.)
load_cached_token_ge(file, t) ==
    IF file.kind = "record" /\ FromIsoformat(file.expiration) >= t
    THEN file.access_token ELSE None
load_cached_token(file, t) ==
    IF file.kind = "record" /\ FromIsoformat(file.expiration) > t
    THEN file.access_token ELSE None

\* save_token_to_cache: the file it leaves.
save_token_to_cache(file, tok, ttl, t) == CacheRecord(tok, Isoformat(t + ttl))

\* Python truth of a token value: None and the empty string are false.
Truthy(tok) == tok # None /\ tok # ""

----------------------------------------------------------------------------
(* Transport *)

NetFail == [net |-> FALSE, status |-> 0, body |-> [kind |-> "none"]]
Reply(s, b) == [net |-> TRUE, status |-> s, body |-> b]
ErrBody == [kind |-> "error"]
ErrorStatuses == {404} \cup StatusForcelist
ErrorReplies == {Reply(s, ErrBody) : s \in ErrorStatuses}

\* Retry.is_retry / Retry.increment of the session's adapter (line 36), and
\* the adapter requests.get builds for itself, which never retries.
ShouldRetry(h, o) ==
    /\ h.via = "session"
    /\ h.attempts < RetryTotal
    /\ \/ ~o.net
       \/ o.status \in StatusForcelist /\ h.method \in AllowedMethods

\* After the last attempt: does the call return a response object?  A
\* connect failure raises ConnectionError, exhausted status retries raise
\* RetryError; both are RequestExceptions and bind nothing.
GivesResponse(h, o) ==
    /\ o.net
    /\ ~(h.via = "session" /\ o.status \in StatusForcelist /\ h.method \in AllowedMethods)

NewRequest(op, via, method) ==
    [op |-> op, via |-> via, method |-> method, attempts |-> 0,
     first |-> 0, last |-> 0, done |-> FALSE, ok |-> FALSE]

\* The transport's record after attempt number h.attempts + 1 got outcome o.
Attempted(h, o, fin, ok) ==
    [h EXCEPT !.attempts = @ + 1,
              !.first = IF h.attempts = 0 THEN o.status ELSE @,
              !.last = o.status, !.done = fin, !.ok = ok]

\* response.json() of a body that is not JSON: requests' JSONDecodeError is
\* a RequestException from requests 2.27 on and a plain ValueError before.
NotJsonIsRequestException == BOOLEAN

----------------------------------------------------------------------------
(* What the provider may answer *)

TokenBodies(w) ==
    {[kind |-> "token", access_token |-> t, expires_in |-> e] : t \in w.tokens, e \in w.ttls}
    \cup {[kind |-> "no_access_token"], [kind |-> "no_expires_in"], [kind |-> "not_json"]}
TokenOutcomes(w) == {NetFail} \cup ErrorReplies \cup {Reply(200, b) : b \in TokenBodies(w)}

UserBodies == {[kind |-> "user", id |-> "me"], [kind |-> "no_id"], [kind |-> "not_json"]}
UserOutcomes == {NetFail} \cup ErrorReplies \cup {Reply(200, b) : b \in UserBodies}

T(h, m, s) == [h |-> h, m |-> m, s |-> s]
BadTimestamp == T(25, 0, 0)

\* Meeting records as the meeting listing returns them.
M1 == [id |-> 1, topic |-> "standup", start_time |-> T(10, 0, 0), duration |-> 30]
M2 == [id |-> 2, topic |-> "review", start_time |-> T(11, 30, 0), duration |-> 45]
M3 == [id |-> 3, topic |-> "broken", start_time |-> BadTimestamp, duration |-> 60]

\* Participant records as the participant report returns them.
P1 == [name |-> "ann", email |-> "ann@example.com",
       join_time |-> T(10, 0, 0), leave_time |-> T(10, 45, 30)]
P2 == [name |-> "bob", email |-> Absent,
       join_time |-> T(10, 0, 30), leave_time |-> T(10, 0, 0)]
P3 == [name |-> "cy", email |-> Absent,
       join_time |-> T(10, 0, 0), leave_time |-> BadTimestamp]

\* What the provider and the clock may do in a behaviour: the tokens and
\* lifetimes the token endpoint hands out, how far the clock runs, the item
\* lists a page may carry and the number of pages a listing may have.
AuthWorld ==
    [pages |-> 0, ppages |-> 0,
     tokens |-> {"tokA", "tokB", ""}, ttls |-> {-1, 0, 1, 2}, tmax |-> MaxTime,
     meetingItems |-> {}, participantItems |-> {}]
MainWorld ==
    [pages |-> MainPages, ppages |-> MainParticipantPages,
     tokens |-> {"tokA"}, ttls |-> {2}, tmax |-> 1,
     meetingItems |-> {<<>>, <<M1>>, <<M2>>, <<M3>>},
     participantItems |-> {<<>>, <<P1>>, <<P2, P1>>, <<P3>>}]
FetchWorld ==
    [pages |-> MaxPages, ppages |-> MaxPages,
     tokens |-> {"tokA"}, ttls |-> {2}, tmax |-> 0,
     meetingItems |-> {<<>>, <<M1>>, <<M2, M1>>},
     participantItems |-> {<<>>, <<P1>>, <<P2, P1>>}]

Cursors == {"c1", "c2"}
\* The bodies a listing endpoint may answer its n-th request with: a page
\* (the last page the provider has carries no cursor or an empty one), a
\* JSON object without the items key, or something that is not JSON.
PageBodies(items, n, max) ==
    {[kind |-> "page", items |-> it, next_page_token |-> c] :
        it \in items,
        c \in {Absent, ""} \cup (IF n < max THEN Cursors ELSE {})}
    \cup {[kind |-> "missing_items"], [kind |-> "not_json"]}
PageOutcomes(items, n, max) ==
    {NetFail} \cup ErrorReplies \cup {Reply(200, b) : b \in PageBodies(items, n, max)}

----------------------------------------------------------------------------
(* Groups of variables *)

authVars == <<cacheFile, saved, access_token, calls, authCalls>>
listVars == <<params, acc, served, sent, result>>
sumVars == <<meetings, idx, fetched, summary, report>>
durVars == <<join_time, leave_time, duration>>

\* The request in flight for op, or a new one.
CurrentRequest(op, via, method) ==
    IF http.op = op /\ ~http.done THEN http ELSE NewRequest(op, via, method)

Raise(e) == pc' = "raised" /\ err' = e

----------------------------------------------------------------------------
(* get_access_token, lines 67-92 *)

\* Lines 68-70: the cache is consulted; a usable token is returned at once.
GetAccessToken_Load ==
    /\ pc = "get_access_token"
    /\ IF load_raises(cacheFile, now)
       THEN /\ Raise(E_Cache)
            /\ UNCHANGED <<access_token, http>>
       ELSE LET cached_token == load_cached_token(cacheFile, now)
            IN IF Truthy(cached_token)
               THEN /\ access_token' = cached_token
                    /\ pc' = "token_returned"
                    /\ UNCHANGED <<err, http>>
               ELSE /\ pc' = "token_http"
                    /\ http' = NewRequest("token", "session", "POST")
                    /\ UNCHANGED <<err, access_token>>
    /\ UNCHANGED <<now, world, cacheFile, saved, calls, authCalls, response, user_id>>
    /\ UNCHANGED <<listVars, sumVars, durVars>>

\* Lines 81-85 all pass: a success status and a JSON body with both fields.
TokenReplyOK(o) == o.net /\ o.status = 200 /\ o.body.kind = "token"

\* The cache file once lines 81-86 have run on reply o: save_token_to_cache
\* is reached, and the file opened for writing, only after every check.
\* (Fault variant: the file is opened for writing before the reply is checked.)
CacheAfterExchangeOpenFirst(file, o, t) ==
    IF TokenReplyOK(o)
    THEN save_token_to_cache(file, o.body.access_token, o.body.expires_in, t)
    ELSE NotJsonFile
CacheAfterExchange(file, o, t) ==
    IF TokenReplyOK(o)
    THEN save_token_to_cache(file, o.body.access_token, o.body.expires_in, t)
    ELSE file

\* Lines 79-92: one attempt of session.post and, after the last attempt, the
\* rest of the function.
GetAccessToken_Post ==
    /\ pc = "token_http"
    /\ \E o \in TokenOutcomes(world) :
         /\ authCalls' = IF http.attempts = 0 THEN authCalls + 1 ELSE authCalls
         /\ IF ShouldRetry(http, o)
            THEN /\ http' = Attempted(http, o, FALSE, FALSE)
                 /\ UNCHANGED <<pc, err, response, cacheFile, saved, access_token>>
            ELSE IF ~GivesResponse(http, o)
            THEN \* except branch, line 91 reads the unassigned local
                 /\ http' = Attempted(http, o, TRUE, FALSE)
                 /\ Raise(E_Unbound)
                 /\ UNCHANGED <<response, cacheFile, saved, access_token>>
            ELSE /\ response' = [status |-> o.status, body |-> o.body]
                 /\ cacheFile' = CacheAfterExchange(cacheFile, o, now)
                 /\ IF o.status # 200
                    THEN /\ http' = Attempted(http, o, TRUE, FALSE)
                         /\ Raise(E_Token)
                         /\ UNCHANGED <<saved, access_token>>
                    ELSE IF o.body.kind = "not_json"
                    THEN /\ http' = Attempted(http, o, TRUE, FALSE)
                         /\ \E isReqExc \in NotJsonIsRequestException :
                              Raise(IF isReqExc THEN E_Token ELSE E_Json)
                         /\ UNCHANGED <<saved, access_token>>
                    ELSE IF o.body.kind # "token"
                    THEN /\ http' = Attempted(http, o, TRUE, FALSE)
                         /\ Raise(E_Key)
                         /\ UNCHANGED <<saved, access_token>>
                    ELSE /\ http' = Attempted(http, o, TRUE, TRUE)
                         /\ saved' = [token |-> o.body.access_token,
                                      ttl |-> o.body.expires_in, at |-> now, any |-> TRUE]
                         /\ access_token' = o.body.access_token
                         /\ pc' = "token_returned"
                         /\ UNCHANGED err
    /\ UNCHANGED <<now, world, calls, user_id>>
    /\ UNCHANGED <<listVars, sumVars, durVars>>

\* The clock advances; after main has read its dates (line 225) the program
\* reads the clock no more.
Tick ==
    /\ pc \in {"get_access_token", "token_http", "token_returned", "raised",
              "get_user_id", "user_returned"}
    /\ now < world.tmax
    /\ now' = now + 1
    /\ UNCHANGED <<pc, world, http, response, err, user_id>>
    /\ UNCHANGED <<authVars, listVars, sumVars, durVars>>

\* A caller of get_access_token calls it again (the script is run again).
CallAgain ==
    /\ pc \in {"token_returned", "raised"}
    /\ calls < MaxCalls
    /\ pc' = "get_access_token"
    /\ calls' = calls + 1
    /\ err' = ""
    /\ access_token' = None
    /\ response' = Unbound
    /\ http' = NoHttp
    /\ UNCHANGED <<now, world, cacheFile, saved, authCalls, user_id>>
    /\ UNCHANGED <<listVars, sumVars, durVars>>



----------------------------------------------------------------------------
(* get_user_id, lines 94-109 *)

Main_Authenticated ==
    /\ pc = "token_returned"
    /\ pc' = "get_user_id"
    /\ http' = NewRequest("user", "session", "GET")
    /\ response' = Unbound
    /\ UNCHANGED <<now, world, err, user_id>>
    /\ UNCHANGED <<authVars, listVars, sumVars, durVars>>

GetUserId_Get ==
    /\ pc = "get_user_id"
    /\ \E o \in UserOutcomes :
         IF ShouldRetry(http, o)
         THEN /\ http' = Attempted(http, o, FALSE, FALSE)
              /\ UNCHANGED <<pc, err, response, user_id>>
         ELSE IF ~GivesResponse(http, o)
         THEN /\ http' = Attempted(http, o, TRUE, FALSE)
              /\ Raise(E_Unbound)
              /\ UNCHANGED <<response, user_id>>
         ELSE /\ response' = [status |-> o.status, body |-> o.body]
              /\ IF o.status # 200
                 THEN /\ http' = Attempted(http, o, TRUE, FALSE)
                      /\ Raise(E_User)
                      /\ UNCHANGED user_id
                 ELSE IF o.body.kind = "not_json"
                 THEN /\ http' = Attempted(http, o, TRUE, FALSE)
                      /\ \E isReqExc \in NotJsonIsRequestException :
                           Raise(IF isReqExc THEN E_User ELSE E_Json)
                      /\ UNCHANGED user_id
                 ELSE IF o.body.kind # "user"
                 THEN /\ http' = Attempted(http, o, TRUE, FALSE)
                      /\ Raise(E_Key)
                      /\ UNCHANGED user_id
                 ELSE /\ http' = Attempted(http, o, TRUE, TRUE)
                      /\ user_id' = o.body.id
                      /\ pc' = "user_returned"
                      /\ UNCHANGED err
    /\ UNCHANGED <<now, world>>
    /\ UNCHANGED <<authVars, listVars, sumVars, durVars>>

----------------------------------------------------------------------------
(* get_meetings, lines 126-154 *)

Days(n) == n * 24 * 60 * 60

\* Lines 131-136 with main's dates, lines 225-226.
MeetingParams(t) ==
    [type |-> "scheduled", page_size |-> PageSize,
     from |-> Isoformat(t - Days(WindowDays)), to |-> Isoformat(t),
     next_page_token |-> Absent]

\* Lines 161-163.
ParticipantParams == [page_size |-> PageSize, next_page_token |-> Absent]

\* Lines 145-146 and 172-173: the cursor goes into the params of the next request.
\* (Fault variant: the cursor is not stored.)
NextParamsStale(p, c) == p
NextParams(p, c) == [p EXCEPT !.next_page_token = c]

\* Lines 145 and 172: is there another page?
HasNext(page) == page.next_page_token # Absent /\ page.next_page_token # ""

\* Lines 144 and 171: list.extend
Extend(a, items) == a \o items

Main_FetchMeetings ==
    /\ pc = "user_returned"
    /\ pc' = "get_meetings"
    /\ params' = MeetingParams(now)
    /\ acc' = <<>> /\ served' = <<>> /\ sent' = <<>> /\ result' = <<>>
    /\ response' = Unbound
    /\ http' = NoHttp
    /\ UNCHANGED <<now, world, err, user_id>>
    /\ UNCHANGED <<authVars, sumVars, durVars>>

\* One pass of the while loop, lines 139-148, and what follows the loop.
GetMeetings_Page ==
    /\ pc = "get_meetings"
    /\ \E o \in PageOutcomes(world.meetingItems, Len(served) + 1, world.pages) :
         LET h == CurrentRequest("meetings", "requests", "GET") IN
         /\ sent' = IF h.attempts = 0 THEN Append(sent, params) ELSE sent
         /\ IF ShouldRetry(h, o)
            THEN /\ http' = Attempted(h, o, FALSE, FALSE)
                 /\ UNCHANGED <<pc, err, response, params, acc, served, result>>
            ELSE IF ~GivesResponse(h, o)
            THEN \* line 153 reads `response`: the previous page's, if any
                 /\ http' = Attempted(h, o, TRUE, FALSE)
                 /\ Raise(IF response = Unbound THEN E_Unbound ELSE E_Meetings)
                 /\ UNCHANGED <<response, params, acc, served, result>>
            ELSE /\ response' = [status |-> o.status, body |-> o.body]
                 /\ IF o.status # 200
                    THEN /\ http' = Attempted(h, o, TRUE, FALSE)
                         /\ Raise(E_Meetings)
                         /\ UNCHANGED <<params, acc, served, result>>
                    ELSE IF o.body.kind = "not_json"
                    THEN /\ http' = Attempted(h, o, TRUE, FALSE)
                         /\ \E isReqExc \in NotJsonIsRequestException :
                              Raise(IF isReqExc THEN E_Meetings ELSE E_Json)
                         /\ UNCHANGED <<params, acc, served, result>>
                    ELSE IF o.body.kind # "page"
                    THEN /\ http' = Attempted(h, o, TRUE, FALSE)
                         /\ Raise(E_Key)
                         /\ UNCHANGED <<params, acc, served, result>>
                    ELSE /\ http' = Attempted(h, o, TRUE, TRUE)
                         /\ acc' = Extend(acc, o.body.items)
                         /\ served' = Append(served, o.body)
                         /\ IF HasNext(o.body)
                            THEN /\ params' = NextParams(params, o.body.next_page_token)
                                 /\ UNCHANGED <<pc, err, result>>
                            ELSE /\ result' = acc'
                                 /\ pc' = "meetings_returned"
                                 /\ UNCHANGED <<params, err>>
    /\ UNCHANGED <<now, world, user_id>>
    /\ UNCHANGED <<authVars, sumVars, durVars>>

----------------------------------------------------------------------------
(* get_meeting_participants, lines 156-181 *)

\* One pass of the while loop, lines 166-175, and what follows the loop; the
\* except branch returns [] (line 181) when it gets that far.
GetMeetingParticipants_Page ==
    /\ pc = "get_meeting_participants"
    /\ \E o \in PageOutcomes(world.participantItems, Len(served) + 1, world.ppages) :
         LET h == CurrentRequest("participants", "requests", "GET") IN
         /\ sent' = IF h.attempts = 0 THEN Append(sent, params) ELSE sent
         /\ IF ShouldRetry(h, o)
            THEN /\ http' = Attempted(h, o, FALSE, FALSE)
                 /\ UNCHANGED <<pc, err, response, params, acc, served, result>>
            ELSE IF ~GivesResponse(h, o)
            THEN \* line 180 reads `response`: the previous page's, if any
                 /\ http' = Attempted(h, o, TRUE, FALSE)
                 /\ IF response = Unbound
                    THEN Raise(E_Unbound) /\ UNCHANGED result
                    ELSE pc' = "participants_returned" /\ result' = <<>> /\ UNCHANGED err
                 /\ UNCHANGED <<response, params, acc, served>>
            ELSE /\ response' = [status |-> o.status, body |-> o.body]
                 /\ IF o.status # 200
                    THEN /\ http' = Attempted(h, o, TRUE, FALSE)
                         /\ pc' = "participants_returned" /\ result' = <<>>
                         /\ UNCHANGED <<params, acc, served, err>>
                    ELSE IF o.body.kind = "not_json"
                    THEN /\ http' = Attempted(h, o, TRUE, FALSE)
                         /\ \E isReqExc \in NotJsonIsRequestException :
                              IF isReqExc
                              THEN pc' = "participants_returned" /\ result' = <<>>
                                   /\ UNCHANGED err
                              ELSE Raise(E_Json) /\ UNCHANGED result
                         /\ UNCHANGED <<params, acc, served>>
                    ELSE IF o.body.kind # "page"
                    THEN /\ http' = Attempted(h, o, TRUE, FALSE)
                         /\ Raise(E_Key)
                         /\ UNCHANGED <<params, acc, served, result>>
                    ELSE /\ http' = Attempted(h, o, TRUE, TRUE)
                         /\ acc' = Extend(acc, o.body.items)
                         /\ served' = Append(served, o.body)
                         /\ IF HasNext(o.body)
                            THEN /\ params' = NextParams(params, o.body.next_page_token)
                                 /\ UNCHANGED <<pc, err, result>>
                            ELSE /\ result' = acc'
                                 /\ pc' = "participants_returned"
                                 /\ UNCHANGED <<params, err>>
    /\ UNCHANGED <<now, world, user_id>>
    /\ UNCHANGED <<authVars, sumVars, durVars>>

----------------------------------------------------------------------------
(* summarize_meetings, lines 189-214 *)

\* strftime("%Y-%m-%d %H:%M") of a time of day: the seconds are dropped.
Strftime(t) == [h |-> t \div 3600, m |-> (t % 3600) \div 60]

\* Lines 199-204.
ParticipantSummary(p) ==
    [name |-> p.name,
     email |-> IF p.email = Absent THEN "N/A" ELSE p.email,
     duration |-> calculate_participant_duration(p.join_time, p.leave_time)]

\* Lines 206-212.
MeetingSummary(m, ps) ==
    [topic |-> m.topic,
     start_time |-> Strftime(Parse(m.start_time)),
     end_time |-> Strftime(Parse(m.start_time) + m.duration * SecondsPerMinute),
     scheduled_duration |-> m.duration,
     participants |-> [k \in 1..Len(ps) |-> ParticipantSummary(ps[k])]]

\* Line 206: summary.append
\* (Fault variant: summary.insert(0, ...).)
AppendSummaryFront(sm, e) == <<e>> \o sm
AppendSummary(sm, e) == Append(sm, e)

Main_Summarize ==
    /\ pc = "meetings_returned"
    /\ pc' = "summarize"
    /\ meetings' = result
    /\ idx' = 1
    /\ summary' = <<>>
    /\ fetched' = <<>>
    /\ params' = NoParams
    /\ acc' = <<>> /\ served' = <<>> /\ sent' = <<>> /\ result' = <<>>
    /\ UNCHANGED <<now, world, http, response, err, user_id, report>>
    /\ UNCHANGED <<authVars, durVars>>

\* Lines 191-196: the next meeting of the for loop, up to the call of
\* get_meeting_participants; after the last meeting, the return.
Summarize_Meeting ==
    /\ pc = "summarize"
    /\ IF idx > Len(meetings)
       THEN /\ pc' = "summary_returned"
            /\ UNCHANGED <<err, response, http, fetched>>
            /\ UNCHANGED listVars
       ELSE IF ~Parses(meetings[idx].start_time)
       THEN /\ Raise(E_Parse)
            /\ UNCHANGED <<response, http, fetched>>
            /\ UNCHANGED listVars
       ELSE /\ pc' = "get_meeting_participants"
            /\ params' = ParticipantParams
            /\ acc' = <<>> /\ served' = <<>> /\ sent' = <<>> /\ result' = <<>>
            /\ response' = Unbound
            /\ http' = NoHttp
            /\ fetched' = Append(fetched, [id |-> meetings[idx].id, got |-> <<>>])
            /\ UNCHANGED err
    /\ UNCHANGED <<now, world, user_id, meetings, idx, summary, report>>
    /\ UNCHANGED <<authVars, durVars>>

\* Lines 197-212: the participants of the meeting are summarized and the
\* meeting's summary is appended.
Summarize_Participants ==
    /\ pc = "participants_returned"
    /\ IF \E k \in 1..Len(result) :
            ~Parses(result[k].join_time) \/ ~Parses(result[k].leave_time)
       THEN /\ Raise(E_Parse)
            /\ UNCHANGED <<summary, idx>>
       ELSE /\ summary' = AppendSummary(summary, MeetingSummary(meetings[idx], result))
            /\ idx' = idx + 1
            /\ pc' = "summarize"
            /\ UNCHANGED err
    /\ fetched' = [fetched EXCEPT ![Len(fetched)].got = result]
    /\ UNCHANGED <<now, world, http, response, user_id, meetings, report>>
    /\ UNCHANGED <<authVars, listVars, durVars>>

----------------------------------------------------------------------------
(* main, lines 216-238 *)

\* Lines 232-235: the report is printed once summarize_meetings has returned.
\* (Fault variant: the report is printed in a finally clause.)
ReportReadyEarly == pc \in {"summary_returned", "raised"}
ReportReady == pc = "summary_returned"

Main_Report ==
    /\ ReportReady
    /\ pc' = "done"
    /\ report' = [printed |-> TRUE, body |-> summary]
    /\ UNCHANGED <<now, world, http, response, err, user_id, meetings, idx,
                   fetched, summary>>
    /\ UNCHANGED <<authVars, listVars, durVars>>

\* Lines 237-238: any exception ends the run with a message.
Main_Except ==
    /\ pc = "raised"
    /\ pc' = "failed"
    /\ UNCHANGED <<now, world, http, response, err, user_id>>
    /\ UNCHANGED <<authVars, listVars, sumVars, durVars>>

----------------------------------------------------------------------------
(* calculate_participant_duration called on its own, lines 183-187 *)

Hours == {9, 10}
Minutes == {0, 1, 45, 59}
Seconds == {0, 30, 59}
Timestamps == {T(h, m, s) : h \in Hours, m \in Minutes, s \in Seconds} \cup {BadTimestamp}

CalculateParticipantDuration ==
    /\ pc = "calculate_participant_duration"
    /\ IF Parses(join_time) /\ Parses(leave_time)
       THEN /\ duration' = calculate_participant_duration(join_time, leave_time)
            /\ pc' = "duration_returned"
            /\ UNCHANGED err
       ELSE /\ Raise(E_Parse)
            /\ UNCHANGED duration
    /\ UNCHANGED <<now, world, http, response, user_id, join_time, leave_time>>
    /\ UNCHANGED <<authVars, listVars, sumVars>>

----------------------------------------------------------------------------
(* Specifications *)

\* The variables at their values before the program has done anything.
IdleHttp == http = NoHttp /\ response = Unbound /\ err = ""
IdleAuth ==
    /\ access_token = None /\ calls = 1 /\ authCalls = 0 /\ user_id = None
    /\ saved = NoSave
IdleList ==
    /\ params = NoParams /\ acc = <<>> /\ served = <<>> /\ sent = <<>>
    /\ result = <<>>
IdleSum ==
    /\ meetings = <<>> /\ idx = 0 /\ fetched = <<>> /\ summary = <<>>
    /\ report = NoReport
IdleDur == join_time = T(0, 0, 0) /\ leave_time = T(0, 0, 0) /\ duration = 0

\* A run of main(): the cache file is absent, damaged, or holds the
\* record of an earlier run, still valid or expired.
Init ==
    /\ pc = "get_access_token"
    /\ now = 0
    /\ world = MainWorld
    /\ cacheFile \in {NoFile, NotJsonFile,
                      CacheRecord("tokA", Isoformat(1)), CacheRecord("tokA", Isoformat(0))}
    /\ IdleHttp /\ IdleAuth /\ IdleList /\ IdleSum /\ IdleDur

Next ==
    \/ GetAccessToken_Load
    \/ GetAccessToken_Post
    \/ Tick
    \/ Main_Authenticated
    \/ GetUserId_Get
    \/ Main_FetchMeetings
    \/ GetMeetings_Page
    \/ Main_Summarize
    \/ Summarize_Meeting
    \/ GetMeetingParticipants_Page
    \/ Summarize_Participants
    \/ Main_Report
    \/ Main_Except

Spec == Init /\ [][Next]_vars

\* get_access_token called again and again while the clock advances.
InitAuth ==
    /\ pc = "get_access_token"
    /\ now = 0
    /\ world = AuthWorld
    /\ cacheFile \in {NoFile, NotJsonFile, NoExpirationFile, BadExpirationFile,
                      NoTokenFile(Isoformat(2))}
    /\ IdleHttp /\ IdleAuth /\ IdleList /\ IdleSum /\ IdleDur

NextAuth == GetAccessToken_Load \/ GetAccessToken_Post \/ Tick \/ CallAgain

SpecAuth == InitAuth /\ [][NextAuth]_vars

\* get_meetings or get_meeting_participants called on its own.
InitFetch ==
    /\ world = FetchWorld
    /\ now = 0
    /\ cacheFile = NoFile
    /\ IdleHttp /\ IdleSum /\ IdleDur
    /\ access_token = "tokA" /\ user_id = "me"
    /\ calls = 1 /\ authCalls = 0 /\ saved = NoSave
    /\ acc = <<>> /\ served = <<>> /\ sent = <<>> /\ result = <<>>
    /\ \/ pc = "get_meetings" /\ params = MeetingParams(now)
       \/ pc = "get_meeting_participants" /\ params = ParticipantParams

NextFetch == GetMeetings_Page \/ GetMeetingParticipants_Page

SpecFetch == InitFetch /\ [][NextFetch]_vars

\* calculate_participant_duration called on its own.
InitDuration ==
    /\ pc = "calculate_participant_duration"
    /\ now = 0
    /\ world = AuthWorld
    /\ cacheFile = NoFile
    /\ IdleHttp /\ IdleAuth /\ IdleList /\ IdleSum
    /\ duration = 0
    /\ join_time \in Timestamps
    /\ leave_time \in Timestamps

NextDuration == CalculateParticipantDuration

SpecDuration == InitDuration /\ [][NextDuration]_vars

----------------------------------------------------------------------------
(* Properties *)

Succeeds(op) == http.op = op /\ http.done /\ http.ok
Fails(op) == http.op = op /\ http.done /\ ~http.ok

\* C1: when the participant listing of a meeting fails in any way (an error
\* status, no response at all, a page without its fields), the listing
\* returns the empty sequence, the meeting's summary has no participants and
\* the run is not aborted.  Checked under Spec.
C1_FailedListingIsSwallowed ==
    Fails("participants") =>
        /\ pc \notin {"raised", "failed"}
        /\ pc = "participants_returned" => result = <<>>
        /\ pc \in {"summarize", "summary_returned", "done"} =>
               /\ Len(summary) >= 1
               /\ summary[Len(summary)].participants = <<>>

\* C2: every request the program issues is retried on a status of the
\* forcelist until 5 retries are used up, and on nothing else: a request
\* ends on a forcelist status only after 1 + 5 attempts, and a request
\* whose first answer is not a forcelist status (404, say) has exactly one
\* attempt.  Checked under Spec.
C2_EveryRequestRetries ==
    (http.op # "none" /\ http.done) =>
        /\ http.attempts <= RetryTotal + 1
        /\ http.last \in StatusForcelist => http.attempts = RetryTotal + 1
        /\ http.first = 404 => (http.attempts = 1 /\ ~http.ok)

\* C3: while the clock is inside the validity window of the token an
\* earlier call saved, get_access_token sends nothing to the network (the
\* only place the cache record is written) and returns that token,
\* whatever the token's value.  Checked under SpecAuth.
C3_CachedTokenIsReused ==
    (saved.any /\ now < saved.at + saved.ttl) =>
        /\ pc # "token_http"
        /\ pc = "token_returned" => access_token = saved.token

\* C4: load() returns nothing while there is no cache file; after
\* save(tok, ttl) at time t it returns tok at every time strictly before
\* t + ttl and nothing from t + ttl on, so that a load right after the save
\* returns tok exactly when ttl > 0.  Checked under SpecAuth.
C4_CacheRoundTrip ==
    /\ cacheFile = NoFile =>
           ~load_raises(cacheFile, now) /\ load_cached_token(cacheFile, now) = None
    /\ saved.any =>
           /\ ~load_raises(cacheFile, now)
           /\ load_cached_token(cacheFile, now) =
                  IF now < saved.at + saved.ttl THEN saved.token ELSE None

C4_Witness ==
    /\ saved.any /\ saved.ttl > 0 /\ now = saved.at + saved.ttl - 1
    /\ saved.at > 0
    /\ load_cached_token(cacheFile, now) = saved.token
    /\ saved.token = "tokB"

\* C5: when a listing returns after the provider served the pages P1..Pn,
\* every page but the last carried a non-empty cursor and the last carried
\* none or an empty one, exactly n requests were sent, the first with the
\* initial parameters and no cursor, the k-th with the same parameters and
\* the cursor of page k-1, and the result is P1.items \o ... \o Pn.items.
\* Checked under SpecFetch.
C5_Pagination ==
    ((Succeeds("meetings") /\ pc = "meetings_returned")
        \/ (Succeeds("participants") /\ pc = "participants_returned")) =>
        LET n == Len(served)
            first == IF pc = "meetings_returned"
                     THEN MeetingParams(now) ELSE ParticipantParams
        IN /\ n >= 1
           /\ Len(sent) = n
           /\ \A k \in 1..(n - 1) : served[k].next_page_token \notin {Absent, ""}
           /\ served[n].next_page_token \in {Absent, ""}
           /\ sent[1] = first
           /\ \A k \in 2..n :
                  sent[k] = [first EXCEPT !.next_page_token = served[k - 1].next_page_token]
           /\ result = Concat([k \in 1..n |-> served[k].items])

C5_Witness ==
    /\ pc = "meetings_returned"
    /\ Len(served) = 3 /\ Len(sent) = 3
    /\ served[1].next_page_token = "c1" /\ served[2].next_page_token = "c2"
    /\ served[3].next_page_token = Absent
    /\ result = <<M1, M2, M1, M1>>

\* C6: once an exception has been raised nothing is printed as the report,
\* whatever had been accumulated; a report is printed only when
\* summarize_meetings has returned a summary of every meeting.  Checked
\* under Spec.
C6_NoReportOnFatalError ==
    /\ (err # "" \/ pc \in {"raised", "failed"}) => report = NoReport
    /\ report.printed =>
           /\ pc = "done"
           /\ idx = Len(meetings) + 1
           /\ Len(report.body) = Len(meetings)
           /\ report.body = summary

C6_Witness ==
    /\ pc = "failed" /\ err = E_Parse
    /\ Len(meetings) = 2 /\ Len(summary) = 1
    /\ report = NoReport

\* C7: summarize_meetings fetches the participants of one meeting at a time
\* in the order of its input, appends one summary per meeting in that
\* order, each with one participant summary per participant listed, in the
\* listing's order, and returns with a summary for every meeting.  Checked
\* under Spec.
C7_OneSummaryPerMeeting ==
    pc \in {"summarize", "get_meeting_participants", "participants_returned",
            "summary_returned", "done"} =>
        /\ Len(fetched) \in {Len(summary), Len(summary) + 1}
        /\ Len(fetched) <= Len(meetings)
        /\ \A i \in 1..Len(fetched) : fetched[i].id = meetings[i].id
        /\ \A i \in 1..Len(summary) :
               /\ summary[i].topic = meetings[i].topic
               /\ Len(summary[i].participants) = Len(fetched[i].got)
               /\ \A k \in 1..Len(fetched[i].got) :
                      summary[i].participants[k].name = fetched[i].got[k].name
        /\ pc \in {"summary_returned", "done"} => Len(summary) = Len(meetings)

C7_Witness ==
    /\ pc = "done"
    /\ Len(report.body) = 2
    /\ report.body[1].topic = "review" /\ report.body[2].topic = "standup"
    /\ Len(report.body[1].participants) = 2
    /\ report.body[1].participants[1].name = "bob"
    /\ report.body[1].participants[2].name = "ann"
    /\ report.body[2].participants = <<>>

C9_CorruptCacheIsAMiss == ~(pc = "raised" /\ err = E_Cache)

\* C10: a token exchange that is answered with an error status, or with a
\* success status and a body without access_token or expires_in, makes
\* get_access_token raise, return no token and leave the cache file as it
\* was; the cache file changes only when an exchange succeeds, to the
\* record of the token and expiry of that reply.  Checked under SpecAuth.
C10_Step ==
    /\ (pc = "token_http" /\ http'.done /\ response' # Unbound
          /\ (response'.status # 200
                \/ response'.body.kind \in {"no_access_token", "no_expires_in"})) =>
           /\ pc' = "raised"
           /\ err' \in {E_Token, E_Key}
           /\ access_token' = None
           /\ cacheFile' = cacheFile
    /\ cacheFile' # cacheFile =>
           /\ pc = "token_http" /\ pc' = "token_returned"
           /\ response'.status = 200 /\ response'.body.kind = "token"
           /\ access_token' = response'.body.access_token
           /\ cacheFile' = CacheRecord(response'.body.access_token,
                                       Isoformat(now + response'.body.expires_in))

====
